---- MODULE Spec2Model ----
(***************************************************************************)
(* Single-machine weighted-completion-time scheduling with release dates:  *)
(* the three MIP formulations of the repository (disjunctive model_1,      *)
(* time-indexed model_3, order/transitivity model_4 and model_2), the      *)
(* decoding of a solved model into a job order, and the experiment script  *)
(* exp.py that is to run the formulations over growing job counts.         *)
(*                                                                         *)
(* The MIP solver is external.  It is modelled by what it guarantees: when *)
(* the constraint set built by modeling() has a solution it returns status *)
(* Optimal together with SOME assignment of minimal objective, otherwise   *)
(* status Infeasible.  What the solver leaves in the variables of an       *)
(* infeasible model is not determined by the repository: it is recorded as *)
(* SolverLeft, and decoding it returns a list or raises.                   *)
(*                                                                         *)
(* The code puts no upper bound on the start variables, so a run can have  *)
(* infinitely many optimal assignments.  solve() offers every optimal      *)
(* assignment whose starts are at most StartCap.  The later ones are the   *)
(* assignments obtained from an offered one by starting its LateJobs       *)
(* later: a start equal to StartCap stands for StartCap or any later       *)
(* start.                                                                  *)
(***************************************************************************)
EXTENDS Integers, Sequences, FiniteSets, TLC

\* ------------------------------------------------------------------ bounds
MaxJobs == 2        \* job counts of the generic instances
MaxHorizon == 4     \* generic instances have max(r) + sum(p) <= MaxHorizon
MaxW == 1           \* generic weights are 0..MaxW
MaxSlack == 2       \* enlarged big-M bounds are big_m + 1 .. big_m + MaxSlack
TripleJobs == 3     \* job count of the precedence-assignment exploration

\* ------------------------------------------------------- python built-ins
RECURSIVE SumSeq(_)
SumSeq(s) == IF s = <<>> THEN 0 ELSE Head(s) + SumSeq(Tail(s))

MaxSeq(s) == CHOOSE m \in {s[i] : i \in 1..Len(s)} : \A i \in 1..Len(s) : s[i] <= m

MaxSet(S) == CHOOSE m \in S : \A e \in S : e <= m

MinSet(S) == CHOOSE m \in S : \A e \in S : m <= e

Max2(a, b) == IF a >= b THEN a ELSE b

\* range(a, b)
PyRange(a, b) == a..(b - 1)

Binary == {0, 1}

\* ---------------------------------------------------------------- __init__
\* (variant: the processing times are left out of the bound)
big_m_ReleaseOnly(p, r) == MaxSeq(r)

\* self.big_m of the disjunctive model
big_m(p, r) == MaxSeq(r) + SumSeq(p)

\* self.times of the time-indexed model: the declared slots 1 .. horizon-1
times(p, r) == PyRange(1, MaxSeq(r) + SumSeq(p))

\* ============================================================== model_1.py
\* Each constraint is the template modeling() instantiates; its arguments are
\* the values of the variables and data it mentions.

\* constraint 1 : C[j] == S[j] + P[j]
Constraint1(cj, sj, pj) == cj = sj + pj

\* (variant: the release date is ignored)
Constraint2_NoRelease(sj, rj) == sj >= 0

\* constraint 2 : S[j] >= R[j]
Constraint2(sj, rj) == sj >= rj

\* (variant: the sense of the indicator is flipped)
Constraint3_Flipped(xjk, sk, cj, M) == sk + M * xjk >= cj

\* (variant: the indicator is left out, so the bound always relaxes)
Constraint3_NoIndicator(xjk, sk, cj, M) == sk + M >= cj

\* constraint 3 : S[k] + M * (1 - X[j,k]) >= C[j]
Constraint3(xjk, sk, cj, M) == sk + M * (1 - xjk) >= cj

\* constraint 4 : X[j,k] + X[k,j] == 1
Constraint4(xjk, xkj) == xjk + xkj = 1

\* every constraint modeling() adds: 1 and 2 per job, 3 for every (j,k),
\* 4 for j != k; M is the bound used in constraint 3
Feasible_1(p, r, M, x, s, c) ==
    \A j \in 1..Len(p) :
        /\ Constraint1(c[j], s[j], p[j])
        /\ Constraint2(s[j], r[j])
        /\ \A k \in 1..Len(p) :
              /\ Constraint3(x[<<j, k>>], s[k], c[j], M)
              /\ (j # k => Constraint4(x[<<j, k>>], x[<<k, j>>]))

\* objective : sum_j w[j] * C[j]
Objective_1(w, c) == SumSeq([j \in 1..Len(w) |-> w[j] * c[j]])

\* the index set of the binary variables x[(j,k)]
Pairs(n) == (1..n) \X (1..n)

\* Constraint 3 of the pair (j, k) as the linear expression the code hands to
\* pulp, written lhs - rhs >= 0:
\*     var_s[k] + big_m * (1 - var_x[(j,k)]) - var_c[j] >= 0
\* as the coefficients of every S[i], C[i] and X[q] and the constant term.
Row3(j, k, M, n) ==
    [S |-> [i \in 1..n |-> IF i = k THEN 1 ELSE 0],
     C |-> [i \in 1..n |-> IF i = j THEN -1 ELSE 0],
     X |-> [q \in Pairs(n) |-> IF q = <<j, k>> THEN -M ELSE 0],
     const |-> M]

\* constraint 1 makes C[i] equal to S[i] + p[i]: the expression e with every
\* C[i] replaced accordingly
SubstituteCompletion(e, p) ==
    [S |-> [i \in 1..Len(p) |-> e.S[i] + e.C[i]],
     C |-> [i \in 1..Len(p) |-> 0],
     X |-> e.X,
     const |-> e.const + SumSeq([i \in 1..Len(p) |-> e.C[i] * p[i]])]

\* the value of the expression e at the assignment x, s, c
Value(e, x, s, c) ==
    LET n == Len(s)
    IN SumSeq([i \in 1..n |-> e.S[i] * s[i] + e.C[i] * c[i]])
       + SumSeq([j \in 1..n |->
                   SumSeq([k \in 1..n |-> e.X[<<j, k>>] * x[<<j, k>>]])])
       + e.const

\* The solver's search space, explored pair by pair.  The constraints that
\* mention x[j,k] or x[k,j] mention no other binary variable, so for given
\* S and C the feasible x are the independent choices, for each j <= k, of a
\* value pair <<x[j,k], x[k,j]>> that satisfies them.
PairValues_1(sj, cj, sk, ck, M, diagonal) ==
    {v \in Binary \X Binary :
        /\ (diagonal => v[1] = v[2])
        /\ (~diagonal => Constraint4(v[1], v[2]))
        /\ Constraint3(v[1], sk, cj, M)
        /\ Constraint3(v[2], sj, ck, M)}

\* the value C must take by constraint 1
Completion(s, p) == [j \in 1..Len(p) |-> s[j] + p[j]]

\* the start values up to cap of jobs 1..m for which some x satisfies the
\* constraints among these jobs, built job by job
RECURSIVE StartsUpTo(_, _, _, _, _)
StartsUpTo(p, r, M, cap, m) ==
    IF m = 0 THEN {<<>>}
    ELSE UNION {{Append(y, t) :
                   t \in {u \in 0..cap :
                            /\ Constraint2(u, r[m])
                            /\ \E a \in Binary : Constraint3(a, u, u + p[m], M)
                            /\ \A k \in 1..(m - 1) :
                                  \E a, b \in Binary :
                                     /\ Constraint4(a, b)
                                     /\ Constraint3(a, u, y[k] + p[k], M)
                                     /\ Constraint3(b, y[k], u + p[m], M)}} :
                y \in StartsUpTo(p, r, M, cap, m - 1)}

\* the start values up to cap for which some x makes the model feasible
Starts_1(p, r, M, cap) == StartsUpTo(p, r, M, cap, Len(p))

\* the choices of value pairs for the index pairs Q
RECURSIVE PairChoices_1(_, _, _, _)
PairChoices_1(Q, s, c, M) ==
    IF Q = {} THEN {<<>>}
    ELSE LET q == CHOOSE e \in Q : TRUE
         IN {(q :> v) @@ ch : v \in PairValues_1(s[q[1]], c[q[1]], s[q[2]], c[q[2]],
                                                   M, q[1] = q[2]),
                              ch \in PairChoices_1(Q \ {q}, s, c, M)}

\* the feasible x of the start values s
Orderings_1(s, c, M) ==
    LET n == Len(s)
    IN {[q \in Pairs(n) |-> IF q[1] <= q[2] THEN ch[q][1]
                            ELSE ch[<<q[2], q[1]>>][2]] :
          ch \in PairChoices_1({q \in Pairs(n) : q[1] <= q[2]}, s, c, M)}

\* every assignment (x, S, C) with S <= cap that satisfies the constraints
Solutions_1(p, r, M, cap) ==
    UNION {{[x |-> x, s |-> s, c |-> Completion(s, p)] :
              x \in Orderings_1(s, Completion(s, p), M)} :
           s \in Starts_1(p, r, M, cap)}

\* ============================================================== model_3.py
\* the start slots summed by constraint 1 for job j
Window(p, r, j) == PyRange(r[j], MaxSet(times(p, r)) - p[j] + 1)

\* modeling() raises: max() of an empty slot list, or var_z[j, t] looked up
\* for a slot t that was never declared
ModelingRaises_3(p, r) ==
    \/ times(p, r) = {}
    \/ \E j \in 1..Len(p) : \E t \in Window(p, r, j) : t \notin times(p, r)

\* value of var_z[j, t]; z[j] is the set of slots whose variable is 1
Z(z, j, t) == IF t \in z[j] THEN 1 ELSE 0

\* constraint 1 : the z[j,t] of the window of job j sum to 1
Constraint1_3(z, p, r, j) ==
    Cardinality({t \in Window(p, r, j) : Z(z, j, t) = 1}) = 1

\* the start slots t_dash of job j summed by constraint 2 at slot t
Covering(p, j, t) == PyRange(Max2(1, t - p[j] + 1), t + 1)

\* left-hand side of constraint 2 at slot t, over the jobs 1..m
Load(z, p, m, t) ==
    SumSeq([j \in 1..m |-> Cardinality({u \in Covering(p, j, t) : Z(z, j, u) = 1})])

\* constraint 2 : at most one job in process at slot t
Constraint2_3(z, p, t) == Load(z, p, Len(p), t) <= 1

Feasible_3(z, p, r) ==
    /\ \A j \in 1..Len(p) : Constraint1_3(z, p, r, j)
    /\ \A t \in times(p, r) : Constraint2_3(z, p, t)

RECURSIVE SumSet(_)
SumSet(S) == IF S = {} THEN 0 ELSE LET e == CHOOSE e \in S : TRUE
                                   IN e + SumSet(S \ {e})

\* sum_t t * z[j,t] over the declared slots ts: the decoded start of job j
DecodedStart(z, ts, j) == SumSet({t * Z(z, j, t) : t \in ts})

\* objective : sum_j w[j] * (sum_t t * z[j,t]) * p[j]
Objective_3(z, p, w, ts) ==
    SumSeq([j \in 1..Len(p) |-> w[j] * (DecodedStart(z, ts, j) * p[j])])

\* the rows z[j, .] that satisfy constraint 1: one slot of the window, and
\* any slots outside it (constraint 1 does not mention those)
Rows(p, r, j) ==
    {{t} \cup F : t \in Window(p, r, j),
                  F \in SUBSET (times(p, r) \ Window(p, r, j))}

\* the assignments of jobs 1..m that satisfy constraint 1 and, with the
\* variables of the later jobs at 0, constraint 2
RECURSIVE Assignments_3(_, _, _)
Assignments_3(p, r, m) ==
    IF m = 0 THEN {<<>>}
    ELSE {z \in {Append(y, row) : y \in Assignments_3(p, r, m - 1),
                                  row \in Rows(p, r, m)} :
            \A t \in times(p, r) : Load(z, p, m, t) <= 1}

Solutions_3(p, r) == Assignments_3(p, r, Len(p))

\* ================================================= model_4.py, model_2.py
\* constraint 3 : s[j] >= r[j] * x[k,j] + sum_i p[j] * (x[i,j] - x[i,k])
Constraint3_4(x, s, p, r, j, k) ==
    s[j] >= r[j] * x[<<k, j>>]
            + SumSeq([i \in 1..Len(p) |-> p[j] * (x[<<i, j>>] - x[<<i, k>>])])

\* constraint 5 : x[j,k] + x[k,i] + x[i,j] <= 1
Constraint5(xjk, xki, xij) == xjk + xki + xij <= 1

\* the constraints on x alone, as modeling() generates them over jobs 1..n:
\* constraint 4 for j != k and constraint 5 for every j, k, i
Admits_4(x, n) ==
    \A j, k \in 1..n :
        /\ (j # k => Constraint4(x[<<j, k>>], x[<<k, j>>]))
        /\ \A i \in 1..n : Constraint5(x[<<j, k>>], x[<<k, i>>], x[<<i, j>>])

Feasible_4(p, r, x, s, c) ==
    /\ \A j \in 1..Len(p) :
          /\ Constraint1(c[j], s[j], p[j])
          /\ Constraint2(s[j], r[j])
          /\ \A k \in 1..Len(p) : Constraint3_4(x, s, p, r, j, k)
    /\ Admits_4(x, Len(p))

\* The x that satisfy the constraints on x alone, built job by job: the
\* constraints generated for jobs 1..m-1 are among those generated for 1..m.
RECURSIVE Orderings_4(_)
Orderings_4(m) ==
    IF m = 0 THEN {<<>>}
    ELSE {x \in {e @@ y : y \in Orderings_4(m - 1),
                          e \in [Pairs(m) \ Pairs(m - 1) -> Binary]} :
            Admits_4(x, m)}

\* every assignment (x, S, C) with S <= cap that satisfies the constraints
Solutions_4(p, r, cap) ==
    LET n == Len(p)
        Ss == {s \in [1..n -> 0..cap] : \A j \in 1..n : Constraint2(s[j], r[j])}
    IN {a \in {[x |-> x, s |-> s, c |-> Completion(s, p)] :
                  x \in Orderings_4(n), s \in Ss} :
          \A j, k \in 1..n : Constraint3_4(a.x, a.s, p, r, j, k)}

\* ------------------------------------------------------------ the solver
\* the assignments of minimal objective among S
Minimisers(S, Obj(_)) ==
    IF S = {} THEN {}
    ELSE LET m == MinSet({Obj(a) : a \in S}) IN {a \in S : Obj(a) = m}

\* the optimal assignments of model_1: the objective depends on S alone
Optimal_1(p, w, r, M, cap) ==
    LET Ss == Minimisers(Starts_1(p, r, M, cap),
                         LAMBDA s : Objective_1(w, Completion(s, p)))
    IN UNION {{[x |-> x, s |-> s, c |-> Completion(s, p)] :
                 x \in Orderings_1(s, Completion(s, p), M)} : s \in Ss}

Optimal_3(p, w, r) ==
    Minimisers(Solutions_3(p, r), LAMBDA z : Objective_3(z, p, w, times(p, r)))

Optimal_4(p, w, r, cap) ==
    Minimisers(Solutions_4(p, r, cap), LAMBDA a : Objective_1(w, a.c))

\* pulp.LpStatus
LpStatus(st) == CASE st = 1 -> "Optimal"
                  [] st = 0 -> "Not Solved"
                  [] st = -1 -> "Infeasible"
                  [] st = -2 -> "Unbounded"
                  [] OTHER -> "Undefined"

\* ------------------------------------------------------------ python sorted
\* sorted(seq, key=...): a stable sort, ascending by key[e]
RECURSIVE sorted(_, _)
sorted(seq, key) ==
    IF seq = <<>> THEN <<>>
    ELSE LET n == Len(seq)
             e == seq[n]
             rest == sorted(SubSeq(seq, 1, n - 1), key)
             k == Cardinality({i \in 1..(n - 1) : key[rest[i]] <= key[e]})
         IN SubSeq(rest, 1, k) \o <<e>> \o SubSeq(rest, k + 1, n - 1)

\* An element of a returned list is written as the tuple of its components:
\* the job id j as <<j>>, the list [j, start] as <<j, start>>.

\* model_1.get_job_order: the job ids sorted by the value of var_s
get_job_order_1(jobs, s) ==
    sorted([i \in 1..Len(jobs) |-> <<jobs[i]>>],
           [e \in {<<jobs[i]>> : i \in 1..Len(jobs)} |-> s[e[1]]])

\* model_3.get_job_order: the pairs [j, decoded start] sorted by the start
get_job_order_3(jobs, z, ts) ==
    LET item == [i \in 1..Len(jobs) |-> <<jobs[i], DecodedStart(z, ts, jobs[i])>>]
        items == {item[i] : i \in 1..Len(jobs)}
    IN sorted(item, [e \in items |-> e[2]])

\* get_job_order of the order model, which opt_plan_2.main calls: the job
\* ids sorted ascending by the solved start
get_job_order_4(jobs, s) ==
    sorted([i \in 1..Len(jobs) |-> <<jobs[i]>>],
           [e \in {<<jobs[i]>> : i \in 1..Len(jobs)} |-> s[e[1]]])

\* ---------------------------------------------------------------- instances
Scenario_A == [p |-> <<3, 2>>, w |-> <<1, 1>>, r |-> <<0, 0>>]

Scenario_B == [p |-> <<5>>, w |-> <<2>>, r |-> <<10>>]

\* three jobs, two of them released together
Scenario_D == [p |-> <<1, 2, 1>>, w |-> <<1, 1, 1>>, r |-> <<1, 1, 2>>]

Scenarios == {Scenario_A, Scenario_B, Scenario_D}

\* the valid instances of n jobs within the bounds: p > 0, r >= 0, w >= 0
Generic(n) ==
    LET PR == {q \in [p : [1..n -> 1..(MaxHorizon - n + 1)],
                      r : [1..n -> 0..(MaxHorizon - n)]] :
                 big_m(q.p, q.r) <= MaxHorizon}
    IN {[p |-> q.p, w |-> w, r |-> q.r] : q \in PR, w \in [1..n -> 0..MaxW]}

Instances == Scenarios \cup UNION {Generic(n) : n \in 1..MaxJobs}

Formulations == <<"disjunctive", "order", "time_indexed">>

\* -------------------------------------------------------------------- state
VARIABLES
    data,         \* the job attribute columns of the data files
    nums,         \* the job count of the current run
    formulation,  \* the formulation of the current run
    pc,           \* "importing", "constructed", "modeled", "solved", "decoded",
                  \* "infeasible", "decode_raised", "raised"
    status,       \* self.status
    objective,    \* self.objective
    var_x, var_s, var_c,   \* values of the ordering models' variables
    var_z,        \* values of the time-indexed model's variables
    job_order,    \* what get_job_order returned
    rows          \* the rows of the runs in result.csv

vars == <<data, nums, formulation, pc, status, objective,
          var_x, var_s, var_c, var_z, job_order, rows>>

\* pandas_read + list_to_dict: the first nums entries of each column
list_j == [j \in 1..nums |-> j]
dict_p == SubSeq(data.p, 1, nums)
dict_w == SubSeq(data.w, 1, nums)
dict_r == SubSeq(data.r, 1, nums)

\* var_s has lowBound 0 and no upper bound; the largest start kept in a
\* state is twice big_m.
\* Disjunctive, some weight positive: every optimal start is below StartCap.
\* A job q of positive weight has the least start its ordering allows, at
\* most big_m, and constraint 3 keeps every other job j within
\* s[j] < s[q] + big_m (for q before j it reads s[q] + big_m >= c[j], for j
\* before q it reads s[q] >= c[j]).
\* Disjunctive, all weights 0: every feasible assignment is optimal, and so
\* is the same assignment with all starts moved later by the same amount.
\* Constraint 3 keeps the starts of a schedule within big_m of each other, so
\* a schedule whose latest start exceeds StartCap is one whose latest start
\* equals StartCap, moved later.
\* Order: every constraint on s[j] is a lower bound that depends on x alone,
\* and below StartCap.  A job of positive weight starts at its lower bound, a
\* job of weight 0 at any value from its lower bound on.
StartCap == 2 * big_m(dict_p, dict_r)

\* The jobs of a returned assignment whose start stands for StartCap or any
\* later start: in the order model each job at StartCap, independently; in
\* the disjunctive model all jobs together, when one of them is at StartCap.
LateJobs ==
    CASE formulation = "order" -> {j \in 1..nums : var_s[j] = StartCap}
      [] formulation = "disjunctive" ->
            IF \E j \in 1..nums : var_s[j] = StartCap THEN 1..nums ELSE {}
      [] OTHER -> {}

\* the starts of the returned assignment with the late jobs moved later by
\* delay[j]
Later(s, delay) == [j \in 1..Len(s) |-> IF j \in LateJobs THEN s[j] + delay[j] ELSE s[j]]

\* ProdPlan.__init__
Constructed ==
    /\ pc = "constructed"
    /\ status = -1
    /\ objective = -1
    /\ var_x = <<>> /\ var_s = <<>> /\ var_c = <<>> /\ var_z = <<>>
    /\ job_order = <<>>

\* An object of one of the three classes, constructed on an instance.  The
\* actions are the calls opt_plan_2.main makes on it, in main's order.  main
\* itself cannot construct the order model's object, whose class has no
\* pandas_read and no list_to_dict: an order run is these calls on an object
\* constructed from make_data.
Init ==
    /\ data \in Instances
    /\ nums = Len(data.p)
    /\ formulation \in {Formulations[f] : f \in 1..Len(Formulations)}
    /\ rows = <<>>
    /\ Constructed

\* modeling(): builds the constraints; the time-indexed build can raise
modeling ==
    /\ pc = "constructed"
    /\ pc' = IF formulation = "time_indexed" /\ ModelingRaises_3(dict_p, dict_r)
             THEN "raised" ELSE "modeled"
    /\ UNCHANGED <<data, nums, formulation, status, objective,
                   var_x, var_s, var_c, var_z, job_order, rows>>

\* what is read back from a model the solver found infeasible: whatever the
\* solver left there, which the repository does not determine
SolverLeft == "left by the solver"

\* solve() on a model the solver finds infeasible: self.status is
\* LpStatusInfeasible, the objective value is read back
Infeasible ==
    /\ status' = -1
    /\ objective' = SolverLeft
    /\ pc' = "infeasible"

\* solve() of model_1
solve_1 ==
    /\ pc = "modeled" /\ formulation = "disjunctive"
    /\ LET O == Optimal_1(dict_p, dict_w, dict_r, big_m(dict_p, dict_r), StartCap)
       IN IF O = {}
          THEN /\ Infeasible
               /\ var_x' = SolverLeft /\ var_s' = SolverLeft /\ var_c' = SolverLeft
               /\ UNCHANGED var_z
          ELSE \E a \in O :
                 /\ status' = 1
                 /\ var_x' = a.x /\ var_s' = a.s /\ var_c' = a.c
                 /\ objective' = Objective_1(dict_w, a.c)
                 /\ pc' = "solved"
                 /\ UNCHANGED var_z
    /\ UNCHANGED <<data, nums, formulation, job_order, rows>>

\* solve() of model_4
solve_4 ==
    /\ pc = "modeled" /\ formulation = "order"
    /\ LET O == Optimal_4(dict_p, dict_w, dict_r, StartCap)
       IN IF O = {}
          THEN /\ Infeasible
               /\ var_x' = SolverLeft /\ var_s' = SolverLeft /\ var_c' = SolverLeft
               /\ UNCHANGED var_z
          ELSE \E a \in O :
                 /\ status' = 1
                 /\ var_x' = a.x /\ var_s' = a.s /\ var_c' = a.c
                 /\ objective' = Objective_1(dict_w, a.c)
                 /\ pc' = "solved"
                 /\ UNCHANGED var_z
    /\ UNCHANGED <<data, nums, formulation, job_order, rows>>

\* solve() of model_3
solve_3 ==
    /\ pc = "modeled" /\ formulation = "time_indexed"
    /\ LET O == Optimal_3(dict_p, dict_w, dict_r)
       IN IF O = {}
          THEN /\ Infeasible
               /\ var_z' = SolverLeft
               /\ UNCHANGED <<var_x, var_s, var_c>>
          ELSE \E z \in O :
                 /\ status' = 1
                 /\ var_z' = z
                 /\ objective' = Objective_3(z, dict_p, dict_w, times(dict_p, dict_r))
                 /\ pc' = "solved"
                 /\ UNCHANGED <<var_x, var_s, var_c>>
    /\ UNCHANGED <<data, nums, formulation, job_order, rows>>

\* get_job_order().  After an Optimal solve it sorts the jobs by their
\* starts; the order model's late jobs can be in any order, as their starts
\* are independent.  After an infeasible solve it reads what the solver left
\* and returns a list or raises.
get_job_order ==
    /\ pc \in {"solved", "infeasible"}
    /\ IF pc = "solved"
       THEN /\ job_order' \in
                 CASE formulation = "time_indexed" ->
                        {get_job_order_3(list_j, var_z, times(dict_p, dict_r))}
                   [] formulation = "order" ->
                        {get_job_order_4(list_j, Later(var_s, delay)) :
                            delay \in [1..nums -> 0..Cardinality(LateJobs)]}
                   [] OTHER -> {get_job_order_1(list_j, var_s)}
            /\ pc' = "decoded"
       ELSE \E outcome \in {"decoded", "decode_raised"} :
               /\ pc' = outcome
               /\ job_order' = IF outcome = "decoded" THEN SolverLeft ELSE job_order
    /\ UNCHANGED <<data, nums, formulation, status, objective,
                   var_x, var_s, var_c, var_z, rows>>

Next == modeling \/ solve_1 \/ solve_4 \/ solve_3 \/ get_job_order

Spec == Init /\ [][Next]_vars

\* main() of the disjunctive formulation alone
InitDisjunctive == Init /\ formulation = "disjunctive"

NextDisjunctive == modeling \/ solve_1 \/ get_job_order

SpecDisjunctive == InitDisjunctive /\ [][NextDisjunctive]_vars

\* ---------------------------------------------------- the experiment script
\* range(1, 11) of the loop of exp.py: the last job count
LastJobCount == 10

\* exp.py starts with nothing run and nothing written
InitExp ==
    /\ data \in Instances
    /\ nums = 1
    /\ formulation = Formulations[1]
    /\ rows = <<>>
    /\ pc = "importing"
    /\ status = -1 /\ objective = -1
    /\ var_x = <<>> /\ var_s = <<>> /\ var_c = <<>> /\ var_z = <<>>
    /\ job_order = <<>>

\* exp.py, lines 3-5: `import model.model3` names a module the package does
\* not have (the file is model_3.py) and raises ModuleNotFoundError.  The
\* script ends there: result.csv is not opened, the loop of lines 13-21 and
\* its writerow calls are not reached.
import_modules ==
    /\ pc = "importing"
    /\ pc' = "raised"
    /\ UNCHANGED <<data, nums, formulation, status, objective,
                   var_x, var_s, var_c, var_z, job_order, rows>>

NextExp == import_modules

SpecExp == InitExp /\ [][NextExp]_vars

\* ------------------------------------- the constraints on x, taken alone
\* any binary assignment to the x[(j,k)] of n jobs, offered to the
\* constraints of the order model that mention x only
InitOrder ==
    /\ nums \in 1..TripleJobs
    /\ var_x \in [Pairs(nums) -> Binary]
    /\ pc = "assigned"
    /\ data = [p |-> <<>>, w |-> <<>>, r |-> <<>>]
    /\ formulation = "order"
    /\ status = -1 /\ objective = -1
    /\ var_s = <<>> /\ var_c = <<>> /\ var_z = <<>>
    /\ job_order = <<>> /\ rows = <<>>

admit ==
    /\ pc = "assigned"
    /\ pc' = IF Admits_4(var_x, nums) THEN "admitted" ELSE "rejected"
    /\ UNCHANGED <<data, nums, formulation, status, objective,
                   var_x, var_s, var_c, var_z, job_order, rows>>

SpecOrder == InitOrder /\ [][admit]_vars

\* ------------------------------------------------------ decoded schedules
\* the start of job j as the run's formulation decodes it
Start(j) == IF formulation = "time_indexed"
            THEN DecodedStart(var_z, times(dict_p, dict_r), j)
            ELSE var_s[j]

\* the finish of job j: var_c, or decoded start + p for the time-indexed model
Finish(j) == IF formulation = "time_indexed"
             THEN Start(j) + dict_p[j]
             ELSE var_c[j]

\* solve() has returned
Solved == pc \in {"solved", "decoded", "infeasible", "decode_raised"}

\* ================================================================== claims

\* the half-open intervals [start, start + p) of jobs j and k do not meet
Disjoint(j, k) == \/ Start(j) + dict_p[j] <= Start(k)
                  \/ Start(k) + dict_p[k] <= Start(j)

\* C1: whenever a formulation reaches status Optimal, no two distinct jobs
\* of the decoded schedule have overlapping intervals [start, start + p).
C1_NoOverlap ==
    (Solved /\ status = 1) =>
        \A j, k \in 1..nums : j # k => Disjoint(j, k)

\* C2: whenever the status is Optimal, every job's decoded values satisfy
\* finish = start + p[job] and start >= r[job], zero-weight jobs included;
\* also with the late jobs started up to MaxSlack later than StartCap.
C2_FinishAndRelease ==
    (Solved /\ status = 1) =>
        \A d \in 0..MaxSlack : \A j \in 1..nums :
            LET late == IF j \in LateJobs THEN d ELSE 0
            IN /\ Finish(j) + late = (Start(j) + late) + dict_p[j]
               /\ Start(j) + late >= dict_r[j]

\* C2 witness: an Optimal solve of two or more jobs that returns a
\* zero-weight job after its release, at a start that stands for every later
\* one
C2_Witness ==
    /\ Solved /\ status = 1 /\ nums >= 2
    /\ \E j \in LateJobs : dict_w[j] = 0 /\ Start(j) > dict_r[j]

\* the prefix of the data used by the runs of job count n
Prefix(col, n) == SubSeq(col, 1, n)

\* the instance of job count n has exactly one optimal schedule (when every
\* weight is 0 each feasible schedule is optimal, however late it starts)
UniqueOptimum(n) ==
    LET p == Prefix(data.p, n)  w == Prefix(data.w, n)  r == Prefix(data.r, n)
    IN /\ \E j \in 1..n : w[j] > 0
       /\ Cardinality(Minimisers(Starts_1(p, r, big_m(p, r), 2 * big_m(p, r)),
                                 LAMBDA s : Objective_1(w, Completion(s, p)))) = 1

\* the orders in which n jobs can be processed
ProcessingOrders(n) == {f \in [1..n -> 1..n] : \A i, j \in 1..n : i # j => f[i] # f[j]}

\* weighted completion time of processing the jobs in the order f, each
\* started at max(its release, the completion of the job before it), from
\* position i on with the machine free at time t
RECURSIVE ListCost(_, _, _, _, _, _)
ListCost(f, i, t, p, w, r) ==
    IF i > Len(p) THEN 0
    ELSE LET j == f[i]
             done == Max2(r[j], t) + p[j]
         IN w[j] * done + ListCost(f, i + 1, done, p, w, r)

BestListCost(p, w, r) ==
    MinSet({ListCost(f, 1, 0, p, w, r) : f \in ProcessingOrders(Len(p))})

\* C4: the disjunctive model's optimal objective is the least weighted
\* completion time over all processing orders; Scenario A decodes to the
\* order <<2, 1>> with objective 7, Scenario B to start 10, finish 15,
\* objective 30.
C4_OptimumIsBestOrder ==
    (Solved /\ formulation = "disjunctive") =>
        /\ status = 1
        /\ objective = BestListCost(dict_p, dict_w, dict_r)
        /\ (data = Scenario_A => objective = 7)
        /\ (data = Scenario_A /\ pc = "decoded" => job_order = <<<<2>>, <<1>>>>)
        /\ (data = Scenario_B =>
               var_s = <<10>> /\ var_c = <<15>> /\ objective = 30)

\* C4 witness: Scenario A solved and decoded by the disjunctive model
C4_Witness ==
    /\ data = Scenario_A /\ formulation = "disjunctive" /\ pc = "decoded"
    /\ job_order = <<<<2>>, <<1>>>> /\ objective = 7

\* the optimal objective of the disjunctive model with bound M: the set of
\* the one optimal value, empty when the model is infeasible
OptValue_1(p, w, r, M, cap) ==
    LET V == {Objective_1(w, Completion(s, p)) : s \in Starts_1(p, r, M, cap)}
    IN IF V = {} THEN {} ELSE {MinSet(V)}

\* C3: on an instance with a unique optimal schedule, every formulation
\* builds its model, reaches status Optimal and returns the same objective
\* value, the optimal value of the disjunctive model.
C3_SameObjective ==
    UniqueOptimum(nums) =>
        /\ pc # "raised"
        /\ (Solved =>
              /\ status = 1
              /\ OptValue_1(dict_p, dict_w, dict_r,
                            big_m(dict_p, dict_r), StartCap) = {objective})

\* a bound under which constraint 3 of a pair with x[j,k] = 0 holds for all
\* starts up to StartCap, so that only the selected order of a pair is
\* constrained
SlackBound == StartCap + SumSeq(dict_p)

\* C5: the disjunctive model built with the code's bound is feasible and its
\* optimal objective is the optimal objective under every strictly larger
\* bound: under big_m + 1 .. big_m + MaxSlack and under SlackBound.  A larger
\* bound only weakens constraint 3, so the optimum cannot grow with the
\* bound, and it is the same at big_m and at SlackBound, where the bound no
\* longer restricts anything: it is the same for every bound from big_m on.
\* The assignment solve() returns satisfies the constraints built with
\* big_m.
C5_BigMNotBinding ==
    (formulation = "disjunctive") =>
        LET M == big_m(dict_p, dict_r)
        IN /\ (pc = "modeled" =>
                 \E V \in {OptValue_1(dict_p, dict_w, dict_r, M, StartCap)} :
                    /\ V # {}
                    /\ \A larger \in {M + d : d \in 1..MaxSlack} \cup {SlackBound} :
                          V = OptValue_1(dict_p, dict_w, dict_r, larger, StartCap))
           /\ (pc = "solved" =>
                 /\ status = 1
                 /\ Feasible_1(dict_p, dict_r, M, var_x, var_s, var_c)
                 /\ objective = Objective_1(dict_w, var_c))

\* C5 witness: an optimal assignment in which constraint 3 of a pair that is
\* not selected (x[j,k] = 0) holds with equality, the bound exactly reached
C5_Witness ==
    /\ pc = "solved" /\ formulation = "disjunctive" /\ status = 1
    /\ \E j, k \in 1..nums :
          /\ j # k /\ var_x[<<j, k>>] = 0
          /\ var_s[k] + big_m(dict_p, dict_r) = var_c[j]

\* C6: the start-slot constraint of job j ranges over exactly the slots
\* r[j] .. horizon - p[j], horizon = max(r) + sum(p); a job has no start
\* slot only when r[j] + p[j] > horizon; the single job p=5, r=10 is
\* feasible.
C6_StartWindow ==
    (formulation = "time_indexed" /\ pc \in {"modeled", "solved", "decoded"}) =>
        LET horizon == MaxSeq(dict_r) + SumSeq(dict_p)
        IN /\ \A j \in 1..nums :
                 /\ Window(dict_p, dict_r, j)
                        = {t \in 0..horizon : dict_r[j] <= t /\ t <= horizon - dict_p[j]}
                 /\ (Window(dict_p, dict_r, j) = {}
                        => dict_r[j] + dict_p[j] > horizon)
           /\ (Solved /\ nums = 1 => status = 1)

\* C7: when the experiment script is over, by its last row or by an
\* exception, every run of every formulation for the job counts
\* 1..LastJobCount has its row.
C7_EveryRunRecorded ==
    (pc = "raised") => Len(rows) = Len(Formulations) * LastJobCount

\* the ids of the returned list, in its order
OrderIds == [i \in 1..Len(job_order) |-> job_order[i][1]]

\* ascending by decoded start, equal starts in ascending id order
SortedByStart(ids) ==
    /\ {ids[i] : i \in 1..Len(ids)} = 1..nums /\ Len(ids) = nums
    /\ \A a, b \in 1..Len(ids) :
          a < b => \/ Start(ids[a]) < Start(ids[b])
                   \/ Start(ids[a]) = Start(ids[b]) /\ ids[a] < ids[b]

FromSource == formulation \in {"disjunctive", "time_indexed"}

\* C8: get_job_order of a model solved to optimality returns the sequence of
\* job ids, sorted
\* ascending by decoded start, equal starts in ascending id order.
C8_ReturnsSortedIds ==
    (pc = "decoded" /\ status = 1 /\ FromSource) =>
        /\ \A i \in 1..Len(job_order) : Len(job_order[i]) = 1
        /\ SortedByStart(OrderIds)

\* x is the precedence relation of a strict total order on 1..n
StrictTotalOrder(x, n) ==
    /\ \A j \in 1..n : x[<<j, j>>] = 0
    /\ \A j, k \in 1..n : j # k => x[<<j, k>>] + x[<<k, j>>] = 1
    /\ \A i, j, k \in 1..n :
          (x[<<i, j>>] = 1 /\ x[<<j, k>>] = 1) => x[<<i, k>>] = 1

\* C9: the constraints on x of the order model admit an assignment exactly
\* when it is the precedence relation of a strict total order.
C9_AdmitsTotalOrders ==
    (pc \in {"admitted", "rejected"}) =>
        ((pc = "admitted") <=> StrictTotalOrder(var_x, nums))

\* sum_j w[j] * (start[j] + p[j]) of a time-indexed assignment
WeightedCompletion(z, p, w, ts) ==
    SumSeq([j \in 1..Len(p) |-> w[j] * (DecodedStart(z, ts, j) + p[j])])

\* C10: an assignment the time-indexed model returns as optimal also
\* minimises sum_j w[j] * (start[j] + p[j]) over the feasible assignments.
C10_SameMinimisers ==
    (formulation = "time_indexed" /\ Solved /\ status = 1) =>
        var_z \in Minimisers(Solutions_3(dict_p, dict_r),
                             LAMBDA z : WeightedCompletion(z, dict_p, dict_w,
                                                           times(dict_p, dict_r)))

\* the assignment x with the diagonal indicator of job j set to b
WithDiagonal(x, j, b) == [x EXCEPT ![<<j, j>>] = b]

\* C11 (as claimed): the diagonal indicator is free: a feasible assignment
\* of the disjunctive model stays feasible with x[j,j] set to 0 and also
\* with x[j,j] set to 1.
C11_DiagonalFree ==
    (formulation = "disjunctive" /\ pc = "solved" /\ status = 1) =>
        \A j \in 1..nums : \A b \in Binary :
            Feasible_1(dict_p, dict_r, big_m(dict_p, dict_r),
                       WithDiagonal(var_x, j, b), var_s, var_c)

\* C11 (amended): the diagonal indicator is fixed.  Constraint 3 as built
\* for j = k, with C[j] replaced by S[j] + p[j] after constraint 1, contains
\* no start, no completion and no other indicator: it reads
\* big_m - p[j] - big_m * x[j,j] >= 0 whatever the start values are, holds
\* for x[j,j] = 0 and fails for x[j,j] = 1.  So every feasible assignment has
\* x[j,j] = 0 and the constraint does not restrict S and C; the assignment
\* solve() returns has x[j,j] = 0 and breaks constraint 3 with x[j,j] = 1.
C11_DiagonalZero ==
    (formulation = "disjunctive") =>
        LET M == big_m(dict_p, dict_r)
        IN /\ (pc = "modeled" =>
                 \A j \in 1..nums :
                    LET e == SubstituteCompletion(Row3(j, j, M, nums), dict_p)
                    IN /\ \A i \in 1..nums : e.S[i] = 0 /\ e.C[i] = 0
                       /\ \A q \in Pairs(nums) : q # <<j, j>> => e.X[q] = 0
                       /\ e.const + e.X[<<j, j>>] * 0 >= 0
                       /\ e.const + e.X[<<j, j>>] * 1 < 0)
           /\ (pc = "solved" /\ status = 1 =>
                 /\ \A j \in 1..nums :
                       /\ var_x[<<j, j>>] = 0
                       /\ ~Constraint3(1, var_s[j], var_c[j], M)
                 /\ \A j, k \in 1..nums : \A b \in Binary :
                       LET x == [var_x EXCEPT ![<<j, k>>] = b]
                           e == Row3(j, k, M, nums)
                       IN /\ Constraint3(b, var_s[k], var_c[j], M)
                               <=> Value(e, x, var_s, var_c) >= 0
                          /\ Value(SubstituteCompletion(e, dict_p), x, var_s, var_c)
                               = Value(e, x, var_s, var_c))

\* C11 witness: an optimal assignment of two or more jobs, whose diagonal
\* indicators are 0 and cannot be set to 1
C11_Witness ==
    /\ formulation = "disjunctive" /\ pc = "solved" /\ status = 1 /\ nums >= 2
    /\ \A j \in 1..nums :
          /\ var_x[<<j, j>>] = 0
          /\ ~Feasible_1(dict_p, dict_r, big_m(dict_p, dict_r),
                         WithDiagonal(var_x, j, 1), var_s, var_c)

\* job j has exactly one slot set, and that slot lies in its window
SingleStart(z, p, r, j) ==
    /\ Cardinality(z[j]) = 1
    /\ z[j] \subseteq times(p, r)
    /\ DecodedStart(z, times(p, r), j) \in Window(p, r, j)

\* C12: in every assignment that satisfies the constraints of the
\* time-indexed model, each job has exactly one slot of 1..horizon-1 with
\* z[j,t] = 1 and its decoded start is that slot, inside the job's window;
\* in particular in the assignment solve() returns.
C12_ExactlyOneSlot ==
    (formulation = "time_indexed") =>
        /\ (pc = "modeled" =>
              \A z \in Solutions_3(dict_p, dict_r) :
                  \A j \in 1..nums : SingleStart(z, dict_p, dict_r, j))
        /\ (Solved /\ status = 1 =>
              \A j \in 1..nums : SingleStart(var_z, dict_p, dict_r, j))

\* C13: modeling() of the time-indexed model completes for every valid
\* instance, and every slot it indexes var_z with, in constraint 1, in
\* constraint 2 and in the objective, is a declared slot 1..horizon-1.
C13_OnlyDeclaredSlots ==
    (formulation = "time_indexed") =>
        /\ pc # "raised"
        /\ (pc \in {"modeled", "solved", "decoded"} =>
              \A j \in 1..nums :
                 /\ Window(dict_p, dict_r, j) \subseteq times(dict_p, dict_r)
                 /\ \A t \in times(dict_p, dict_r) :
                       Covering(dict_p, j, t) \subseteq times(dict_p, dict_r))

====
